---- MODULE Spec2Model ----
(***************************************************************************)
(* A model of Texdit's connectivity monitor (ServerManager) and command    *)
(* dispatcher (CommandManager).  Every action is one Qt slot, public       *)
(* method or reply handler, run to completion on the single GUI thread.    *)
(* Text is a sequence of one-character strings; a fixed piece of a message *)
(* format is kept as one element.                                          *)
(***************************************************************************)
EXTENDS Integers, Sequences, FiniteSets, TLC

VARIABLES
    currentStatus,        \* ServerManager::currentStatus
    consecutiveFailures,  \* ServerManager::consecutiveFailures
    currentHealthCheck,   \* ServerManager::currentHealthCheck: "null" or "running"
    healthCheckTimer,     \* ServerManager::healthCheckTimer is active
    executionState,       \* CommandManager::executionState
    availableCommands,    \* CommandManager::availableCommands
    commandReplies,       \* the outstanding POSTs of executeServerCommand, oldest first
    probeFailures,        \* history: failed probes handled since the last successful one
    requestFailures,      \* history: requests that ended in a network error since the
                          \*          last successful probe
    failRun,              \* history: failed probes handled since the last successful one
                          \*          or since startHealthMonitoring last changed the status
    notifiedStatus,       \* history: the status carried by the last statusChanged, or "none"
    healthChecks,         \* the number of health-check GETs in flight
    staleBackupTimer,     \* a probe has ended with its backup timer armed: a timer armed
                          \* for an earlier probe may fire
    commandText,          \* MainWindow: the text of the command box
    suggestionsVisible,   \* MainWindow: the suggestion popup is shown
    suggestions_popup,    \* MainWindow: the string list of the popup
    currentRow,           \* MainWindow: the row of the popup's current index, -1 if invalid
    searchReplies,        \* the /api/search POSTs in flight, each with its query
    textChangedConnections, \* connections of textChanged to commandTextEdited
    reconnectTimers,      \* the 50 ms timers of selectSuggestion still armed
    step                  \* history: what the last handler was given and what it emitted

vars == <<currentStatus, consecutiveFailures, currentHealthCheck, healthCheckTimer,
          executionState, availableCommands, commandReplies, probeFailures, requestFailures,
          failRun, notifiedStatus, healthChecks, staleBackupTimer,
          commandText, suggestionsVisible, suggestions_popup, currentRow, searchReplies,
          textChangedConnections, reconnectTimers, step>>

probeVars == <<healthChecks, staleBackupTimer>>

popupVars == <<suggestionsVisible, suggestions_popup, currentRow>>

uiVars == <<commandText, popupVars, searchReplies, textChangedConnections, reconnectTimers>>

\* what the command manager and the monitor keep besides status and counter
managerVars == <<currentHealthCheck, healthCheckTimer, executionState, commandReplies,
                 probeFailures, failRun, probeVars>>

----------------------------------------------------------------------------
(* Bounds of the model *)

\* consecutiveFailures is an unbounded int in the code; the model stops counting here
MaxFailures == 16

\* the percentages given to the summarise command run from 0 to MaxPercentage
MaxPercentage == 100
MaxSearches == 2
MaxReconnects == 2
MaxSearchFailures == 1

(* Program constants *)

MAX_RETRY_ATTEMPTS == 15

----------------------------------------------------------------------------
(* Text *)

Upper == <<"A","B","C","D","E","F","G","H","I","J","K","L","M",
           "N","O","P","Q","R","S","T","U","V","W","X","Y","Z">>
Lower == <<"a","b","c","d","e","f","g","h","i","j","k","l","m",
           "n","o","p","q","r","s","t","u","v","w","x","y","z">>
Digits == <<"0","1","2","3","4","5","6","7","8","9">>

\* QChar::toLower on one character
toLowerChar(c) ==
    IF \E i \in 1..26 : Upper[i] = c
    THEN Lower[CHOOSE i \in 1..26 : Upper[i] = c]
    ELSE c

toLower_identity(s) == s

\* QString::toLower
toLower(s) == [i \in 1..Len(s) |-> toLowerChar(s[i])]

\* QChar::isSpace, for the characters the model uses
isSpace(c) == c = " "

RECURSIVE dropLeadingSpace(_)
dropLeadingSpace(s) ==
    IF s # <<>> /\ isSpace(Head(s)) THEN dropLeadingSpace(Tail(s)) ELSE s

RECURSIVE dropTrailingSpace(_)
dropTrailingSpace(s) ==
    IF s # <<>> /\ isSpace(s[Len(s)])
    THEN dropTrailingSpace(SubSeq(s, 1, Len(s) - 1))
    ELSE s

trimmed_keepsSpace(s) == s

\* QString::trimmed
trimmed(s) == dropTrailingSpace(dropLeadingSpace(s))

\* QString::split(' ', Qt::KeepEmptyParts): acc is the part being read
RECURSIVE splitKeep(_, _)
splitKeep(s, acc) ==
    IF s = <<>> THEN <<acc>>
    ELSE IF Head(s) = " " THEN <<acc>> \o splitKeep(Tail(s), <<>>)
    ELSE splitKeep(Tail(s), Append(acc, Head(s)))

\* QString::split(' ', Qt::SkipEmptyParts)
splitSkipEmpty(s) == SelectSeq(splitKeep(s, <<>>), LAMBDA p : p # <<>>)

digitValue(c) == (CHOOSE i \in 1..10 : Digits[i] = c) - 1

isDigit(c) == \E i \in 1..10 : Digits[i] = c

RECURSIVE digitsValue(_, _)
digitsValue(s, acc) ==
    IF s = <<>> THEN acc ELSE digitsValue(Tail(s), 10 * acc + digitValue(Head(s)))

IntMax == 2147483647

\* QString::toInt(&ok): an optional sign and decimal digits, within int
toInt(s) ==
    LET signed == s # <<>> /\ Head(s) \in {"+", "-"}
        body   == IF signed THEN Tail(s) ELSE s
        wellFormed == body # <<>> /\ \A i \in 1..Len(body) : isDigit(body[i])
        magnitude  == IF wellFormed THEN digitsValue(body, 0) ELSE 0
        value  == IF signed /\ Head(s) = "-" THEN 0 - magnitude ELSE magnitude
        ok     == wellFormed /\ value <= IntMax /\ value >= 0 - IntMax - 1
    IN  [ok |-> ok, value |-> IF ok THEN value ELSE 0]

\* QString::number on a non-negative int
RECURSIVE number(_)
number(n) ==
    IF n < 10 THEN <<Digits[n + 1]>> ELSE number(n \div 10) \o <<Digits[(n % 10) + 1]>>

\* the text sub occurs in the text s
containsText(s, sub) ==
    \E i \in 0..(Len(s) - Len(sub)) : SubSeq(s, i + 1, i + Len(sub)) = sub

----------------------------------------------------------------------------
(* Numbers: a double is modelled by the rational it stands for, num / den with *)
(* den > 0, and the operations are exact                                        *)

Rat(num, den) == [num |-> num, den |-> den]

ratMul(a, b) == Rat(a.num * b.num, a.den * b.den)

ratLess(a, b) == a.num * b.den < b.num * a.den

\* qMax
qMax(a, b) == IF ratLess(a, b) THEN b ELSE a

----------------------------------------------------------------------------
(* QJsonObject: a set of <<key, value>> pairs with one pair for a key *)

jsonContains(object, key) == \E m \in object : m[1] = key

\* object[key] of a key the object holds
jsonValue(object, key) == (CHOOSE m \in object : m[1] = key)[2]

\* object[key].toString() for text values: empty when the key is absent
jsonString(object, key) == IF jsonContains(object, key) THEN jsonValue(object, key) ELSE <<>>

\* object[key].toInt() for int values: 0 when the key is absent
jsonInt(object, key) == IF jsonContains(object, key) THEN jsonValue(object, key) ELSE 0

----------------------------------------------------------------------------
(* The command table of CommandManager *)

s_summarise == <<"s","u","m","m","a","r","i","s","e">>
s_summarize == <<"s","u","m","m","a","r","i","z","e">>
s_tone      == <<"t","o","n","e">>
s_keywords  == <<"k","e","y","w","o","r","d","s">>
s_rephrase  == <<"r","e","p","h","r","a","s","e">>
s_rewrite   == <<"r","e","w","r","i","t","e">>
s_help      == <<"h","e","l","p">>
s_clear     == <<"c","l","e","a","r">>
s_font      == <<"f","o","n","t">>
s_highlight == <<"h","i","g","h","l","i","g","h","t">>
s_formal    == <<"f","o","r","m","a","l">>
s_casual    == <<"c","a","s","u","a","l">>
s_playful   == <<"p","l","a","y","f","u","l">>

\* commandRegistry::getAllCommands
getAllCommands ==
    <<s_summarise, s_tone, s_font, s_highlight, s_keywords, s_rephrase, s_rewrite>>

\* commandRegistry::getCommandDefinitions: the arguments of tone
toneArguments == <<s_formal, s_casual, s_playful>>

\* commandRegistry::getCommandDefinitions: the arguments of highlight
highlightArguments == << s_keywords, <<"g","r","a","m","m","a","r">> >>

\* CommandManager::commands, a QMap: its keys in sorted order
commandKeys == <<s_clear, s_help, s_keywords, s_rephrase, s_rewrite, s_summarise, s_tone>>

requiresServerOf(name) == name \in {s_summarise, s_tone, s_keywords, s_rephrase, s_rewrite}

requiresInputOf(name) == name \in {s_summarise, s_tone, s_keywords, s_rephrase, s_rewrite}

commandsContains_any(name) == TRUE

commandsContains(name) == \E i \in 1..Len(commandKeys) : commandKeys[i] = name

\* CommandManager::getCommandInfo, with the default for an unknown name
getCommandInfo(name) ==
    IF commandsContains(name)
    THEN [name |-> name, requiresServer |-> requiresServerOf(name),
          requiresInput |-> requiresInputOf(name)]
    ELSE [name |-> <<>>, requiresServer |-> FALSE, requiresInput |-> FALSE]

computeAvailable_ignoresReadiness(serverReady) == commandKeys

\* CommandManager::handleServerStatusChange: the list rebuilt for a readiness
computeAvailable(serverReady) ==
    SelectSeq(commandKeys, LAMBDA k : ~requiresServerOf(k) \/ serverReady)

listContains(list, x) == \E i \in 1..Len(list) : list[i] = x

\* the args of summarise <percentage>
summariseArgs_defaultBand(percentage) ==
    { <<"ratio", Rat(percentage, 100)>>,
      <<"min_ratio", Rat(20, 100)>>,
      <<"max_ratio", Rat(30, 100)>> }

summariseArgs(percentage) ==
    LET ratio    == Rat(percentage, 100)
        minRatio == qMax(Rat(5, 100), ratMul(ratio, Rat(9, 10)))
        maxRatio == ratMul(ratio, Rat(11, 10))
    IN  { <<"ratio", ratio>>, <<"min_ratio", minRatio>>, <<"max_ratio", maxRatio>> }

\* the args of summarise without a percentage
summariseDefaultArgs ==
    { <<"ratio", Rat(25, 100)>>, <<"min_ratio", Rat(20, 100)>>, <<"max_ratio", Rat(30, 100)>> }

\* CommandManager::parseCommandWithArgs: success, the base command and the args
parseCommandWithArgs(command) ==
    LET parts == splitSkipEmpty(command)
        base  == IF parts = <<>> THEN <<>> ELSE toLower(parts[1])
    IN  IF parts = <<>> THEN [ok |-> FALSE, baseCommand |-> <<>>, args |-> {}]
        ELSE IF base = s_summarise \/ base = s_summarize
        THEN IF Len(parts) > 1
             THEN IF Len(parts) > 2
                  THEN [ok |-> FALSE, baseCommand |-> s_summarise, args |-> {}]
                  ELSE LET p == toInt(parts[2])
                       IN  IF ~p.ok \/ p.value <= 0 \/ p.value >= 100
                           THEN [ok |-> FALSE, baseCommand |-> s_summarise, args |-> {}]
                           ELSE [ok |-> TRUE, baseCommand |-> s_summarise,
                                 args |-> summariseArgs(p.value)]
             ELSE [ok |-> TRUE, baseCommand |-> s_summarise, args |-> summariseDefaultArgs]
        ELSE IF commandsContains(base)
        THEN [ok |-> TRUE, baseCommand |-> base, args |-> {}]
        ELSE [ok |-> FALSE, baseCommand |-> base, args |-> {}]

\* CommandManager::isCommandValid
isCommandValid(command) ==
    \/ commandsContains(command)
    \/ LET p == parseCommandWithArgs(command)
       IN  p.ok /\ commandsContains(p.baseCommand)

----------------------------------------------------------------------------
(* The suggestion engine of commandRegistry *)

startsWith_caseSensitive(s, prefix, caseInsensitive) ==
    /\ Len(prefix) <= Len(s)
    /\ SubSeq(s, 1, Len(prefix)) = prefix

\* QString::startsWith
startsWith(s, prefix, caseInsensitive) ==
    /\ Len(prefix) <= Len(s)
    /\ IF caseInsensitive
       THEN toLower(SubSeq(s, 1, Len(prefix))) = toLower(prefix)
       ELSE SubSeq(s, 1, Len(prefix)) = prefix

\* QStringList::mid(pos, length)
mid(list, pos, length) ==
    SubSeq(list, pos + 1, IF pos + length < Len(list) THEN pos + length ELSE Len(list))

starterCommands_all == getAllCommands

\* the starter commands shown for an empty input
starterCommands == <<s_summarise, s_tone, s_highlight>>

\* the argument options of getContextualSuggestions
summariseOptions == << <<"1","0">>, <<"2","5">>, <<"5","0">>, <<"7","5">> >>
toneOptions      == <<s_formal, s_casual, s_playful>>
fontOptions      == << <<"A","r","i","a","l">>, <<"C","a","l","i","b","r","i">>,
                       <<"G","e","o","r","g","i","a">>, <<"V","e","r","d","a","n","a">> >>
highlightOptions == << s_keywords, <<"g","r","a","m","m","a","r">> >>

argumentCompletions_all(commandName, options, currentArg, caseInsensitive) ==
    [k \in 1..Len(options) |-> commandName \o <<" ">> \o options[k]]

\* the loop over the options of a command: "<command> <option>" for each option that
\* starts with the current argument
argumentCompletions(commandName, options, currentArg, caseInsensitive) ==
    LET matching == SelectSeq(options, LAMBDA option :
                        currentArg = <<>> \/ startsWith(option, currentArg, caseInsensitive))
    IN  [k \in 1..Len(matching) |-> commandName \o <<" ">> \o matching[k]]

\* commandRegistry::getContextualSuggestions
getContextualSuggestions(input) ==
    LET text == trimmed(input)
    IN  IF text = <<>> THEN starterCommands
        ELSE LET parts == splitKeep(text, <<>>)
             IN  IF Len(parts) = 1
                 THEN LET partial  == toLower(parts[1])
                          matching == SelectSeq(getAllCommands,
                                                LAMBDA cmd : startsWith(cmd, partial, TRUE))
                      IN  IF Len(matching) > 3 THEN mid(matching, 0, 3) ELSE matching
                 ELSE LET commandName == toLower(parts[1])
                          currentArg  == parts[2]
                      IN  IF commandName = s_summarise
                          THEN argumentCompletions(commandName, summariseOptions,
                                                   currentArg, FALSE)
                          ELSE IF commandName = s_tone
                          THEN argumentCompletions(commandName, toneOptions,
                                                   currentArg, TRUE)
                          ELSE IF commandName = s_font
                          THEN argumentCompletions(commandName, fontOptions,
                                                   currentArg, TRUE)
                          ELSE IF commandName = s_highlight
                          THEN argumentCompletions(commandName, highlightOptions,
                                                   currentArg, TRUE)
                          ELSE IF listContains(getAllCommands, commandName)
                          THEN <<commandName>>
                          ELSE <<>>

----------------------------------------------------------------------------
(* Inputs *)

c_toneLoud == <<"T","o","n","e">> \o <<" ">> \o <<"l","o","u","d">>

\* command texts given to executeCommand: a local command, summarise in its other
\* spelling with a percentage, tone with an argument outside its set, summarise with
\* an out-of-range percentage, a name that only commandRegistry lists and an unknown
\* name
ExecCommands ==
    { <<"H","e","l","p">>,
      s_summarize \o <<" ">> \o <<"5","0">>,
      c_toneLoud,
      s_summarise \o <<" ">> \o <<"1","0","0">>,
      s_font,
      <<"b","o","g","u","s">> }

\* text bodies given to executeCommand
InputTexts == { <<" ", " ">>, <<"a", " ", "b">> }

\* MainWindow::executeCommand always passes a callback
Callbacks == { TRUE }

\* parseCommandWithArgs on each command text of the model, evaluated once
parsed == [c \in ExecCommands |-> parseCommandWithArgs(c)]

\* trimmed on each text body of the model, evaluated once
trimmedInput == [i \in InputTexts |-> trimmed(i)]

\* command texts given to isCommandValid: summarise with every percentage of the
\* model, in both spellings and in capitals, with no argument and with a negative one
ParseCommands ==
    { s_summarise \o <<" ">> \o number(n) : n \in 0..MaxPercentage }
    \cup { s_summarize \o <<" ">> \o number(n) : n \in {1, 5, 6, 99} }
    \cup { s_summarise, s_summarize,
           <<"S","U","M","M","A","R","I","S","E">> \o <<" ">> \o <<"7">>,
           s_summarise \o <<" ">> \o <<"-","5">>,
           s_tone, <<"T","O","N","E">>, s_help, s_font }

\* inputs given to getContextualSuggestions: empty and blank, partial names in both
\* cases, a name followed by a space, names with a partial argument, with an argument
\* after two spaces and with two arguments
SuggestInputs ==
    { <<>>, <<" ">>, <<" "," ">>,
      <<"t">>, <<"T">>, <<"r">>, <<"R","E">>, <<"s">>, <<"h","i">>, <<"x">>, <<"f">>, <<"k">>,
      s_tone, s_keywords, <<" ","t","o"," ">>,
      s_tone \o <<" ">>,
      s_highlight \o <<" ">>,
      s_tone \o <<" ","f","o">>,
      s_tone \o <<" ","F">>,
      <<"T","O","N","E">> \o <<" ","c">>,
      s_tone \o <<" ","p">>,
      s_tone \o <<" ","x">>,
      s_tone \o <<" "," ","f","o">>,
      s_tone \o <<" ","f","o"," ","x">>,
      s_highlight \o <<" ","g">>,
      s_highlight \o <<" ","K","E","Y">>,
      s_summarise \o <<" ","5">>,
      s_summarise \o <<" ","7">>,
      s_font \o <<" ","a">>,
      s_keywords \o <<" ","a">>,
      <<"b","o","g","u","s"," ","a">> }

\* texts typed into the command box
CommandTexts ==
    { <<>>,
      <<"r">>,
      <<" ","r">>,
      <<"r","e">>,
      s_tone \o <<" ","f">> }

\* texts of the backend
t_oom  == <<"o","o","m">>
t_done == <<"d","o","n","e">>

\* response objects of the backend: an error, a result and a summary.  None carries
\* original_length, summary_length, compression_ratio or performance.
Responses ==
    { { <<"error", t_oom>> },
      { <<"result", t_done>> },
      { <<"summary", t_done>> } }

\* result lists of /api/search
SearchResults ==
    { <<>>,
      <<s_rephrase, s_rewrite>>,
      <<s_rewrite, s_rephrase, s_tone, s_summarise, s_keywords>> }

\* response objects of /api/search: with a results array, and without one
SearchResponses ==
    { { <<"results", results>> } : results \in SearchResults } \cup { { <<"error", t_oom>> } }

----------------------------------------------------------------------------
(* ServerManager *)

setStatus_alwaysEmits(cur, failures, status) ==
    [currentStatus |-> status,
     consecutiveFailures |-> IF status = "Connected" THEN 0 ELSE failures,
     statusChanged |-> <<status>>,
     serverReady |-> status = "Connected"]

\* ServerManager::setStatus: the new status and counter, and the signals emitted
setStatus(cur, failures, status) ==
    IF cur # status
    THEN [currentStatus |-> status,
          consecutiveFailures |-> IF status = "Connected" THEN 0 ELSE failures,
          statusChanged |-> <<status>>,
          serverReady |-> status = "Connected"]
    ELSE [currentStatus |-> cur, consecutiveFailures |-> failures,
          statusChanged |-> <<>>, serverReady |-> FALSE]

performHealthCheck_noSkip(check) == [currentHealthCheck |-> "running", gets |-> 1]

\* ServerManager::performHealthCheck: skipped while a probe is running
performHealthCheck(check) ==
    IF check = "running"
    THEN [currentHealthCheck |-> check, gets |-> 0]
    ELSE [currentHealthCheck |-> "running", gets |-> 1]

handleHealthCheckResponse_errorIsTerminal(cur, failures, noError) ==
    IF noError
    THEN IF cur = "Error"
         THEN [currentStatus |-> cur, consecutiveFailures |-> failures,
               statusChanged |-> <<>>, serverReady |-> FALSE]
         ELSE setStatus(cur, 0, "Connected")
    ELSE IF failures + 1 >= MAX_RETRY_ATTEMPTS
         THEN setStatus(cur, failures + 1, "Error")
         ELSE setStatus(cur, failures + 1, "Connecting")

handleHealthCheckResponse_keepsCounter(cur, failures, noError) ==
    IF noError
    THEN setStatus(cur, failures, "Connected")
    ELSE IF failures + 1 >= MAX_RETRY_ATTEMPTS
         THEN setStatus(cur, failures + 1, "Error")
         ELSE setStatus(cur, failures + 1, "Connecting")

\* ServerManager::handleHealthCheckResponse for a probe that finished with or without error
handleHealthCheckResponse(cur, failures, noError) ==
    IF noError
    THEN IF cur # "Connected"
         THEN setStatus(cur, 0, "Connected")
         ELSE [currentStatus |-> cur, consecutiveFailures |-> 0,
               statusChanged |-> <<>>, serverReady |-> FALSE]
    ELSE IF failures + 1 >= MAX_RETRY_ATTEMPTS
         THEN setStatus(cur, failures + 1, "Error")
         ELSE setStatus(cur, failures + 1, "Connecting")

stopHealthMonitoring_leavesProbe(check) ==
    [healthCheckTimer |-> FALSE, currentHealthCheck |-> check, aborts |-> 0]

\* ServerManager::stopHealthMonitoring: the timer is stopped, a probe is aborted
stopHealthMonitoring(check) ==
    [healthCheckTimer |-> FALSE, currentHealthCheck |-> "null",
     aborts |-> IF check = "running" THEN 1 ELSE 0]

\* the finished handler of ServerManager::makeRequest on a network error: the counter
\* and the status
makeRequestNetworkError_noCeiling(cur, failures) ==
    IF cur = "Connected"
    THEN setStatus(cur, failures + 1, "Error")
    ELSE [currentStatus |-> cur, consecutiveFailures |-> failures + 1,
          statusChanged |-> <<>>, serverReady |-> FALSE]

makeRequestNetworkError(cur, failures) ==
    IF failures + 1 >= MAX_RETRY_ATTEMPTS /\ cur = "Connected"
    THEN setStatus(cur, failures + 1, "Error")
    ELSE [currentStatus |-> cur, consecutiveFailures |-> failures + 1,
          statusChanged |-> <<>>, serverReady |-> FALSE]

handleServerStatusChange_keepsList(avail, s) == avail

\* CommandManager::handleServerStatusChange, run by each statusChanged emission
handleServerStatusChange(avail, s) ==
    IF s.statusChanged # <<>>
    THEN computeAvailable(s.currentStatus = "Connected")
    ELSE avail

----------------------------------------------------------------------------
(* CommandManager *)

NoReply == [pending |-> FALSE, command |-> <<>>, baseCommand |-> <<>>, args |-> {},
            hasCallback |-> FALSE]

Outcome(result, kind, detail) == [result |-> result, kind |-> kind, detail |-> detail]

\* the wrappedCallback of executeCommand: the signals and the caller's callback
wrappedCallback(hasCallback, outcome) ==
    [executionState |-> "Idle",
     executionStateChanged |-> <<"Idle">>,
     callbacks |-> IF hasCallback THEN <<outcome>> ELSE <<>>]

executeLocalCommand_noEmit(avail, command, hasCallback) ==
    LET w == wrappedCallback(hasCallback, Outcome("Success", "local", command))
    IN  [executionState |-> w.executionState,
         executionStateChanged |-> w.executionStateChanged,
         callbacks |-> w.callbacks,
         commandExecuted |-> <<>>,
         post |-> NoReply]

\* CommandManager::executeLocalCommand
executeLocalCommand(avail, command, hasCallback) ==
    LET outcome == IF command = s_help THEN Outcome("Success", "help", avail)
                   ELSE IF command = s_clear THEN Outcome("Success", "cleared", <<>>)
                   ELSE Outcome("Success", "local", command)
        w == wrappedCallback(hasCallback, outcome)
    IN  [executionState |-> w.executionState,
         executionStateChanged |-> w.executionStateChanged,
         callbacks |-> w.callbacks,
         commandExecuted |-> <<[command |-> command, outcome |-> outcome]>>,
         post |-> NoReply]

\* CommandManager::executeServerCommand with ServerManager::makeRequest up to the POST
executeServerCommand(status, command, hasCallback) ==
    LET p == parsed[command]
    IN  IF ~p.ok
        THEN LET outcome == Outcome("ValidationError", "invalid-format", command)
                 w == wrappedCallback(hasCallback, outcome)
             IN  [executionState |-> w.executionState,
                  executionStateChanged |-> w.executionStateChanged,
                  callbacks |-> w.callbacks,
                  commandExecuted |-> <<[command |-> command, outcome |-> outcome]>>,
                  post |-> NoReply]
        ELSE IF status # "Connected"
        THEN LET outcome == Outcome("ServerError", "request-not-available",
                                    <<"Server command failed: ",
                                      "Server not available for requests">>)
                 w == wrappedCallback(hasCallback, outcome)
             IN  [executionState |-> w.executionState,
                  executionStateChanged |-> w.executionStateChanged,
                  callbacks |-> w.callbacks,
                  commandExecuted |-> <<[command |-> command, outcome |-> outcome]>>,
                  post |-> NoReply,
                  makeRequests |-> 1, onSuccess |-> 0, onError |-> 1]
        ELSE [executionState |-> "Executing",
              executionStateChanged |-> <<>>,
              callbacks |-> <<>>,
              commandExecuted |-> <<>>,
              post |-> [pending |-> TRUE, command |-> command,
                        baseCommand |-> p.baseCommand, args |-> p.args,
                        hasCallback |-> hasCallback],
              makeRequests |-> 1, onSuccess |-> 0, onError |-> 0]

failEarly_noReset(command, hasCallback, outcome) ==
    [executionState |-> "Executing",
     executionStateChanged |-> <<"Executing">>,
     callbacks |-> IF hasCallback THEN <<outcome>> ELSE <<>>,
     commandExecuted |-> <<[command |-> command, outcome |-> outcome]>>,
     post |-> NoReply]

\* an exit of executeCommand that resets the state and reports a failure itself
failEarly(command, hasCallback, outcome) ==
    [executionState |-> "Idle",
     executionStateChanged |-> <<"Executing", "Idle">>,
     callbacks |-> IF hasCallback THEN <<outcome>> ELSE <<>>,
     commandExecuted |-> <<[command |-> command, outcome |-> outcome]>>,
     post |-> NoReply]

alreadyExecuting_never(execState) == FALSE

\* the gate that opens executeCommand
alreadyExecuting(execState) == execState = "Executing"

rejectExecution_resets(execState, command, hasCallback) ==
    failEarly(command, hasCallback, Outcome("ExecutionError", "already-running", <<>>))

\* the exit of executeCommand for a call made while another command runs
rejectExecution(execState, command, hasCallback) ==
    LET outcome == Outcome("ExecutionError", "already-running", <<>>)
    IN  [executionState |-> execState,
         executionStateChanged |-> <<>>,
         callbacks |-> IF hasCallback THEN <<outcome>> ELSE <<>>,
         commandExecuted |-> <<[command |-> command, outcome |-> outcome]>>,
         post |-> NoReply]

\* CommandManager::executeCommand
executeCommand(execState, avail, status, command, inputText, hasCallback) ==
    LET p    == parsed[command]
        info == getCommandInfo(p.baseCommand)
    IN  IF alreadyExecuting(execState)
        THEN rejectExecution(execState, command, hasCallback)
        ELSE IF ~p.ok
        THEN failEarly(command, hasCallback,
                       Outcome("InvalidCommand", "unknown-command", command))
        ELSE IF ~listContains(avail, p.baseCommand)
        THEN failEarly(command, hasCallback,
                       Outcome("ServerError", "not-available", p.baseCommand))
        ELSE IF info.requiresInput /\ trimmedInput[inputText] = <<>>
        THEN failEarly(command, hasCallback,
                       Outcome("ValidationError", "requires-input", p.baseCommand))
        ELSE LET r == IF info.requiresServer
                      THEN executeServerCommand(status, command, hasCallback)
                      ELSE executeLocalCommand(avail, p.baseCommand, hasCallback)
             IN  [r EXCEPT !.executionStateChanged = <<"Executing">> \o @]

\* CommandManager::formatServerResponse; a fixed piece of a format is one element of
\* the text.  A response without compression_ratio prints 0.0, one without a
\* performance object prints no performance lines.
formatServerResponse(command, response) ==
    IF command = s_summarise
    THEN IF jsonContains(response, "error")
         THEN <<"Error: ">> \o jsonString(response, "error")
         ELSE jsonString(response, "summary")
              \o <<"\n\nSummary Stats:\n">>
              \o <<"Original: ">> \o number(jsonInt(response, "original_length"))
              \o <<" words\n">>
              \o <<"Summary: ">> \o number(jsonInt(response, "summary_length"))
              \o <<" words (">> \o <<"0.0">> \o <<"%)\n">>
              \o <<"Quality: High-precision summary with intelligent length control">>
    ELSE LET result == jsonString(response, "result")
             output == jsonString(response, "output")
         IN  IF result # <<>> THEN result
             ELSE IF output # <<>> THEN output
             ELSE <<"Command '">> \o command \o <<"' executed successfully">>

makeRequestFinished_invalidJsonSucceeds(kind) ==
    IF kind = "networkError"
    THEN [onSuccess |-> 0, onError |-> 1, tag |-> "request-network-error",
          error |-> <<"Network error: ", "errorString">>, posts |-> 0]
    ELSE [onSuccess |-> 1, onError |-> 0, tag |-> "", error |-> <<>>, posts |-> 0]

makeRequestFinished_errorAlsoSucceeds(kind) ==
    IF kind = "object"
    THEN [onSuccess |-> 1, onError |-> 0, tag |-> "", error |-> <<>>, posts |-> 0]
    ELSE [onSuccess |-> 1, onError |-> 1, tag |-> "request-network-error",
          error |-> <<"Network error: ", "errorString">>, posts |-> 0]

makeRequestFinished_retries(kind) ==
    IF kind = "object"
    THEN [onSuccess |-> 1, onError |-> 0, tag |-> "", error |-> <<>>, posts |-> 0]
    ELSE IF kind = "invalidJson"
    THEN [onSuccess |-> 0, onError |-> 1, tag |-> "request-invalid-json",
          error |-> <<"Invalid JSON response: ", "errorString">>, posts |-> 0]
    ELSE [onSuccess |-> 0, onError |-> 1, tag |-> "request-network-error",
          error |-> <<"Network error: ", "errorString">>, posts |-> 1]

\* the finished lambda of ServerManager::makeRequest: which of onSuccess and onError
\* it invokes, the error text it passes, and the POSTs it issues itself
makeRequestFinished(kind) ==
    IF kind = "object"
    THEN [onSuccess |-> 1, onError |-> 0, tag |-> "", error |-> <<>>, posts |-> 0]
    ELSE IF kind = "invalidJson"
    THEN [onSuccess |-> 0, onError |-> 1, tag |-> "request-invalid-json",
          error |-> <<"Invalid JSON response: ", "errorString">>, posts |-> 0]
    ELSE [onSuccess |-> 0, onError |-> 1, tag |-> "request-network-error",
          error |-> <<"Network error: ", "errorString">>, posts |-> 0]

\* the onSuccess lambda of executeServerCommand
onSuccess(baseCommand, response) ==
    Outcome("Success", "formatted", formatServerResponse(baseCommand, response))

\* the onError lambda of executeServerCommand
onError(tag, error) ==
    Outcome("ServerError", tag, <<"Server command failed: ">> \o error)

\* the reply of the POST: what executeServerCommand's onSuccess and onError report
replyOutcome(baseCommand, delivered, response) ==
    (IF delivered.onSuccess = 1 THEN <<onSuccess(baseCommand, response)>> ELSE <<>>)
    \o (IF delivered.onError = 1 THEN <<onError(delivered.tag, delivered.error)>> ELSE <<>>)

ReplyKinds == {"object", "invalidJson", "networkError"}

getSuggestions_alwaysSearches(query, serverReady) ==
    [suggestions |-> getContextualSuggestions(query),
     suggestionsAvailable |->
         <<[query |-> query, suggestions |-> getContextualSuggestions(query)]>>,
     makeRequests |-> 1]

\* CommandManager::getSuggestions: the local suggestions, the suggestionsAvailable it
\* emits before it returns, and whether it posts /api/search
getSuggestions(query, serverReady) ==
    LET suggestions == getContextualSuggestions(query)
        trimmedQuery == trimmed(query)
        parts == splitSkipEmpty(trimmedQuery)
    IN  [suggestions |-> suggestions,
         suggestionsAvailable |-> <<[query |-> query, suggestions |-> suggestions]>>,
         makeRequests |-> IF serverReady /\ Len(parts) = 1 /\ trimmedQuery # <<>>
                          THEN 1 ELSE 0]

\* the queries of commandTextEdited for the texts of CommandTexts
trimmedText == [text \in CommandTexts |-> trimmed(text)]

\* getSuggestions of each of these queries, with the server ready and not
suggested ==
    [query \in {trimmedText[text] : text \in CommandTexts} |->
        [serverReady \in BOOLEAN |-> getSuggestions(query, serverReady)]]

\* response["results"].toArray(): empty when the key is absent
jsonArray(object, key) == IF jsonContains(object, key) THEN jsonValue(object, key) ELSE <<>>

\* the onSuccess lambda of getSuggestions: the suggestionsAvailable it emits
searchSuccess(query, suggestions, response) ==
    LET serverSuggestions == jsonArray(response, "results")
    IN  IF serverSuggestions # <<>> /\ serverSuggestions # suggestions
        THEN <<[query |-> query, suggestions |-> serverSuggestions]>>
        ELSE <<>>

----------------------------------------------------------------------------
(* MainWindow: p is the popup, a record of suggestionsVisible, suggestions_popup *)
(* and currentRow                                                               *)

\* MainWindow::hideSuggestions
hideSuggestions(p) == [p EXCEPT !.suggestionsVisible = FALSE]

\* MainWindow::displaySuggestions
displaySuggestions(p, suggestionList) ==
    IF suggestionList = <<>>
    THEN hideSuggestions(p)
    ELSE [suggestionsVisible |-> TRUE,
          suggestions_popup |-> mid(suggestionList, 0, 4),
          currentRow |-> 0]

onSuggestionsReceived_anyQuery(p, text, query, suggestions) ==
    IF suggestions # <<>>
    THEN [popup |-> displaySuggestions(p, suggestions), displayed |-> TRUE]
    ELSE [popup |-> p, displayed |-> FALSE]

\* MainWindow::onSuggestionsReceived while the command box holds text: the popup
\* afterwards, and whether displaySuggestions was called
onSuggestionsReceived(p, text, query, suggestions) ==
    IF trimmed(text) = query /\ suggestions # <<>>
    THEN [popup |-> displaySuggestions(p, suggestions), displayed |-> TRUE]
    ELSE [popup |-> p, displayed |-> FALSE]

keyDown_wraps(row, rowCount) == IF row >= 0 THEN (row + 1) % rowCount ELSE 0

\* MainWindow::eventFilter, Qt::Key_Down: the row of the current index afterwards
keyDown(row, rowCount) ==
    LET nextRow == IF row >= 0 THEN row + 1 ELSE 0
        maxRow == rowCount - 1
    IN  IF nextRow <= maxRow THEN nextRow ELSE row

\* MainWindow::eventFilter, Qt::Key_Up: the row of the current index afterwards
keyUp(row) ==
    LET prevRow == IF row >= 0 THEN row - 1 ELSE -1
    IN  IF prevRow >= 0 THEN prevRow ELSE row

----------------------------------------------------------------------------
(* State *)

NoParse == [ok |-> FALSE, baseCommand |-> <<>>, args |-> {}]

Quiet(op) ==
    [op |-> op, command |-> <<>>, inputText |-> <<>>, hasCallback |-> FALSE, arg |-> "",
     callbacks |-> <<>>, commandExecuted |-> <<>>, executionStateChanged |-> <<>>,
     statusChanged |-> <<>>, posts |-> 0, gets |-> 0,
     makeRequests |-> 0, onSuccess |-> 0, onError |-> 0, response |-> {},
     parse |-> NoParse, valid |-> FALSE, query |-> <<>>, suggestions |-> <<>>,
     aborts |-> 0, delivered |-> <<>>, displayed |-> <<>>, row |-> -1, from |-> ""]

\* the status carried by the last statusChanged after a handler that emitted signals
Notified(signals) ==
    IF signals # <<>> THEN signals[Len(signals)] ELSE notifiedStatus

\* the constructors of ServerManager and CommandManager
Init ==
    /\ currentStatus = "Disconnected"
    /\ consecutiveFailures = 0
    /\ currentHealthCheck = "null"
    /\ healthCheckTimer = FALSE
    /\ executionState = "Idle"
    /\ availableCommands = computeAvailable(FALSE)
    /\ commandReplies = <<>>
    /\ probeFailures = 0
    /\ requestFailures = 0
    /\ failRun = 0
    /\ notifiedStatus = "none"
    /\ healthChecks = 0
    /\ staleBackupTimer = FALSE
    /\ commandText = <<>>
    /\ suggestionsVisible = FALSE
    /\ suggestions_popup = <<>>
    /\ currentRow = -1
    /\ searchReplies = <<>>
    /\ textChangedConnections = 1
    /\ reconnectTimers = 0
    /\ step = Quiet("construct")

\* ServerManager::startHealthMonitoring
StartHealthMonitoring ==
    LET s == setStatus(currentStatus, consecutiveFailures, "Connecting")
        h == performHealthCheck(currentHealthCheck)
    IN  /\ currentStatus' = s.currentStatus
        /\ consecutiveFailures' = s.consecutiveFailures
        /\ availableCommands' = handleServerStatusChange(availableCommands, s)
        /\ currentHealthCheck' = h.currentHealthCheck
        /\ healthCheckTimer' = TRUE
        /\ failRun' = IF s.statusChanged # <<>> THEN 0 ELSE failRun
        /\ notifiedStatus' = Notified(s.statusChanged)
        /\ healthChecks' = healthChecks + h.gets
        /\ UNCHANGED uiVars
        /\ step' = [Quiet("startHealthMonitoring") EXCEPT
                        !.statusChanged = s.statusChanged, !.gets = h.gets]
        /\ UNCHANGED <<executionState, commandReplies, probeFailures, requestFailures,
                       staleBackupTimer>>

\* the timeout of healthCheckTimer: ServerManager::performHealthCheck
HealthCheckTimeout ==
    LET h == performHealthCheck(currentHealthCheck)
    IN  /\ healthCheckTimer
        /\ currentHealthCheck' = h.currentHealthCheck
        /\ healthChecks' = healthChecks + h.gets
        /\ UNCHANGED uiVars
        /\ step' = [Quiet("performHealthCheck") EXCEPT !.gets = h.gets]
        /\ UNCHANGED <<currentStatus, consecutiveFailures, healthCheckTimer, executionState,
                       availableCommands, commandReplies, probeFailures, requestFailures,
                       failRun, notifiedStatus, staleBackupTimer>>

\* the status and counter left as they are
Unchanged(cur, failures) ==
    [currentStatus |-> cur, consecutiveFailures |-> failures,
     statusChanged |-> <<>>, serverReady |-> FALSE]

\* the finished signal of a probe: ServerManager::handleHealthCheckResponse.  A probe
\* ends without error, or with one (refused, timed out).
HealthCheckFinished(noError) ==
    LET handled == currentHealthCheck # "null"
        s == IF handled
             THEN handleHealthCheckResponse(currentStatus, consecutiveFailures, noError)
             ELSE Unchanged(currentStatus, consecutiveFailures)
    IN  /\ healthChecks > 0
        /\ noError \/ consecutiveFailures < MaxFailures
        /\ currentStatus' = s.currentStatus
        /\ consecutiveFailures' = s.consecutiveFailures
        /\ availableCommands' = handleServerStatusChange(availableCommands, s)
        /\ currentHealthCheck' = "null"
        /\ healthChecks' = healthChecks - 1
        /\ staleBackupTimer' = TRUE
        /\ probeFailures' = IF noError THEN 0 ELSE probeFailures + 1
        /\ requestFailures' = IF noError THEN 0 ELSE requestFailures
        /\ failRun' = IF noError THEN 0 ELSE failRun + 1
        /\ notifiedStatus' = Notified(s.statusChanged)
        /\ UNCHANGED uiVars
        /\ step' = [Quiet("handleHealthCheckResponse") EXCEPT
                        !.arg = IF noError THEN "NoError" ELSE "Error",
                        !.from = currentStatus,
                        !.statusChanged = s.statusChanged]
        /\ UNCHANGED <<healthCheckTimer, executionState, commandReplies>>

\* ServerManager::stopHealthMonitoring.  QNetworkReply::abort emits finished before it
\* returns, so the aborted probe is handled as a failed one.
StopHealthMonitoring ==
    LET stopped == stopHealthMonitoring(currentHealthCheck)
        aborted == stopped.aborts = 1
        s == IF aborted
             THEN handleHealthCheckResponse(currentStatus, consecutiveFailures, FALSE)
             ELSE Unchanged(currentStatus, consecutiveFailures)
    IN  /\ healthCheckTimer \/ currentHealthCheck = "running"
        /\ aborted => consecutiveFailures < MaxFailures
        /\ healthCheckTimer' = stopped.healthCheckTimer
        /\ currentStatus' = s.currentStatus
        /\ consecutiveFailures' = s.consecutiveFailures
        /\ availableCommands' = handleServerStatusChange(availableCommands, s)
        /\ currentHealthCheck' = stopped.currentHealthCheck
        /\ healthChecks' = healthChecks - stopped.aborts
        /\ staleBackupTimer' = (staleBackupTimer \/ aborted)
        /\ probeFailures' = IF aborted THEN probeFailures + 1 ELSE probeFailures
        /\ failRun' = IF aborted THEN failRun + 1 ELSE failRun
        /\ notifiedStatus' = Notified(s.statusChanged)
        /\ UNCHANGED uiVars
        /\ step' = [Quiet("stopHealthMonitoring") EXCEPT
                        !.statusChanged = s.statusChanged, !.aborts = stopped.aborts]
        /\ UNCHANGED <<executionState, commandReplies, requestFailures>>

\* the backup timeout armed by performHealthCheck, 6000 ms after a probe was issued:
\* it aborts the probe that is running then.  own: the timer was armed for the probe
\* that is running; otherwise it was armed for a probe that has ended.
BackupTimeout(own) ==
    LET aborted == currentHealthCheck = "running"
        s == IF aborted
             THEN handleHealthCheckResponse(currentStatus, consecutiveFailures, FALSE)
             ELSE Unchanged(currentStatus, consecutiveFailures)
    IN  /\ IF own THEN currentHealthCheck = "running" ELSE staleBackupTimer
        /\ aborted => consecutiveFailures < MaxFailures
        /\ currentStatus' = s.currentStatus
        /\ consecutiveFailures' = s.consecutiveFailures
        /\ availableCommands' = handleServerStatusChange(availableCommands, s)
        /\ currentHealthCheck' = "null"
        /\ healthChecks' = IF aborted THEN healthChecks - 1 ELSE healthChecks
        /\ staleBackupTimer' = (staleBackupTimer \/ (aborted /\ ~own))
        /\ probeFailures' = IF aborted THEN probeFailures + 1 ELSE probeFailures
        /\ failRun' = IF aborted THEN failRun + 1 ELSE failRun
        /\ notifiedStatus' = Notified(s.statusChanged)
        /\ UNCHANGED uiVars
        /\ step' = [Quiet("backupTimeout") EXCEPT
                        !.arg = IF own THEN "own" ELSE "stale",
                        !.statusChanged = s.statusChanged,
                        !.aborts = IF aborted THEN 1 ELSE 0]
        /\ UNCHANGED <<healthCheckTimer, executionState, commandReplies, requestFailures>>

\* CommandManager::executeCommand, called with a command text, a text body and a callback
ExecuteCommand(command, inputText, hasCallback) ==
    LET r == executeCommand(executionState, availableCommands, currentStatus,
                            command, inputText, hasCallback)
             @@ [makeRequests |-> 0, onSuccess |-> 0, onError |-> 0]
    IN  /\ executionState' = r.executionState
        /\ commandReplies' = IF r.post.pending THEN Append(commandReplies, r.post)
                              ELSE commandReplies
        /\ UNCHANGED uiVars
        /\ step' = [Quiet("executeCommand") EXCEPT
                        !.command = command, !.inputText = inputText,
                        !.hasCallback = hasCallback,
                        !.callbacks = r.callbacks,
                        !.commandExecuted = r.commandExecuted,
                        !.executionStateChanged = r.executionStateChanged,
                        !.posts = IF r.post.pending THEN 1 ELSE 0,
                        !.makeRequests = r.makeRequests,
                        !.onSuccess = r.onSuccess,
                        !.onError = r.onError]
        /\ UNCHANGED <<currentStatus, consecutiveFailures, currentHealthCheck,
                       healthCheckTimer, availableCommands, probeFailures,
                       requestFailures, failRun, notifiedStatus>>
        /\ UNCHANGED probeVars

\* the finished signal of the i-th outstanding POST: the lambda of
\* ServerManager::makeRequest and the onSuccess or onError lambda of executeServerCommand
CommandFinished(i, kind, response) ==
    LET reply == commandReplies[i]
        s == IF kind = "networkError"
             THEN makeRequestNetworkError(currentStatus, consecutiveFailures)
             ELSE [currentStatus |-> currentStatus,
                   consecutiveFailures |-> consecutiveFailures,
                   statusChanged |-> <<>>, serverReady |-> FALSE]
        delivered == makeRequestFinished(kind)
        outcomes == replyOutcome(reply.baseCommand, delivered, response)
        w == [k \in 1..Len(outcomes) |-> wrappedCallback(reply.hasCallback, outcomes[k])]
    IN  /\ kind = "networkError" => consecutiveFailures < MaxFailures
        /\ currentStatus' = s.currentStatus
        /\ consecutiveFailures' = s.consecutiveFailures
        /\ availableCommands' = handleServerStatusChange(availableCommands, s)
        /\ executionState' = IF w # <<>> THEN w[Len(w)].executionState ELSE executionState
        /\ commandReplies' = [j \in 1..(Len(commandReplies) - 1) |->
                                 IF j < i THEN commandReplies[j] ELSE commandReplies[j + 1]]
                              \o [k \in 1..delivered.posts |-> reply]
        /\ requestFailures' = IF kind = "networkError" THEN requestFailures + 1
                              ELSE requestFailures
        /\ notifiedStatus' = Notified(s.statusChanged)
        /\ UNCHANGED uiVars
        /\ step' = [Quiet("commandFinished") EXCEPT
                        !.command = reply.command,
                        !.hasCallback = reply.hasCallback,
                        !.arg = kind,
                        !.response = response,
                        !.posts = delivered.posts,
                        !.onSuccess = delivered.onSuccess,
                        !.onError = delivered.onError,
                        !.callbacks = IF reply.hasCallback THEN outcomes ELSE <<>>,
                        !.commandExecuted =
                            [k \in 1..Len(outcomes) |->
                                [command |-> reply.command, outcome |-> outcomes[k]]],
                        !.executionStateChanged =
                            [k \in 1..Len(w) |-> w[k].executionStateChanged[1]],
                        !.statusChanged = s.statusChanged]
        /\ UNCHANGED <<currentHealthCheck, healthCheckTimer, probeFailures, failRun>>
        /\ UNCHANGED probeVars

\* commandRegistry::getContextualSuggestions, called with an input
GetContextualSuggestions(input) ==
    /\ UNCHANGED uiVars
    /\ step' = [Quiet("getContextualSuggestions") EXCEPT
                    !.query = input,
                    !.suggestions = getContextualSuggestions(input)]
    /\ UNCHANGED <<currentStatus, consecutiveFailures, currentHealthCheck, healthCheckTimer,
                   executionState, availableCommands, commandReplies, probeFailures,
                   requestFailures, failRun, notifiedStatus>>
    /\ UNCHANGED probeVars

CommandReplied ==
    \E i \in 1..Len(commandReplies), kind \in ReplyKinds :
        \E response \in (IF kind = "object" THEN Responses ELSE {{}}) :
            CommandFinished(i, kind, response)

\* CommandManager::isCommandValid, called with a command text
IsCommandValid(command) ==
    /\ UNCHANGED uiVars
    /\ step' = [Quiet("isCommandValid") EXCEPT
                    !.command = command,
                    !.parse = parseCommandWithArgs(command),
                    !.valid = isCommandValid(command)]
    /\ UNCHANGED <<currentStatus, consecutiveFailures, currentHealthCheck, healthCheckTimer,
                   executionState, availableCommands, commandReplies, probeFailures,
                   requestFailures, failRun, notifiedStatus>>
    /\ UNCHANGED probeVars

\* status, counter and what follows them
serverVars == <<currentStatus, consecutiveFailures, availableCommands, requestFailures,
                notifiedStatus>>

popup == [suggestionsVisible |-> suggestionsVisible,
          suggestions_popup |-> suggestions_popup,
          currentRow |-> currentRow]

\* the textChanged signal of the command box: MainWindow::commandTextEdited, once for
\* each connection, with CommandManager::getSuggestions and the onSuggestionsReceived
\* its suggestionsAvailable reaches before it returns
CommandTextEdited(text) ==
    LET calls == textChangedConnections
        query == trimmedText[text]
        asked == calls > 0 /\ query # <<>>
        g == suggested[query][currentStatus = "Connected"]
        r == IF calls = 0 THEN [popup |-> popup, displayed |-> FALSE]
             ELSE IF query = <<>> THEN [popup |-> hideSuggestions(popup), displayed |-> FALSE]
             ELSE onSuggestionsReceived(popup, text, g.suggestionsAvailable[1].query,
                                        g.suggestionsAvailable[1].suggestions)
        posts == IF asked THEN calls * g.makeRequests ELSE 0
        delivery == [query |-> query, text |-> text, suggestions |-> g.suggestions]
    IN  /\ text # commandText
        /\ Len(searchReplies) + posts <= MaxSearches
        /\ commandText' = text
        /\ suggestionsVisible' = r.popup.suggestionsVisible
        /\ suggestions_popup' = r.popup.suggestions_popup
        /\ currentRow' = r.popup.currentRow
        /\ searchReplies' = searchReplies \o
                [k \in 1..posts |-> [query |-> query, suggestions |-> g.suggestions]]
        /\ step' = [Quiet("commandTextEdited") EXCEPT
                        !.query = query,
                        !.suggestions = IF asked THEN g.suggestions ELSE <<>>,
                        !.makeRequests = posts,
                        !.delivered = IF asked THEN [k \in 1..calls |-> delivery] ELSE <<>>,
                        !.displayed = IF r.displayed THEN [k \in 1..calls |-> delivery]
                                      ELSE <<>>]
        /\ UNCHANGED <<textChangedConnections, reconnectTimers, serverVars, managerVars>>

\* the finished signal of the i-th outstanding /api/search POST: the lambda of
\* ServerManager::makeRequest, the onSuccess or onError lambda of getSuggestions and
\* the onSuggestionsReceived its suggestionsAvailable reaches
SearchFinished(i, kind, response) ==
    LET reply == searchReplies[i]
        s == IF kind = "networkError"
             THEN makeRequestNetworkError(currentStatus, consecutiveFailures)
             ELSE Unchanged(currentStatus, consecutiveFailures)
        finished == makeRequestFinished(kind)
        emitted == IF finished.onSuccess = 1
                   THEN searchSuccess(reply.query, reply.suggestions, response)
                   ELSE <<>>
        r == IF emitted # <<>>
             THEN onSuggestionsReceived(popup, commandText, emitted[1].query,
                                        emitted[1].suggestions)
             ELSE [popup |-> popup, displayed |-> FALSE]
        deliveries == [k \in 1..Len(emitted) |->
                          [query |-> emitted[k].query, text |-> commandText,
                           suggestions |-> emitted[k].suggestions]]
    IN  /\ kind = "networkError" =>
               consecutiveFailures < MaxFailures /\ requestFailures < MaxSearchFailures
        /\ currentStatus' = s.currentStatus
        /\ consecutiveFailures' = s.consecutiveFailures
        /\ availableCommands' = handleServerStatusChange(availableCommands, s)
        /\ requestFailures' = IF kind = "networkError" THEN requestFailures + 1
                              ELSE requestFailures
        /\ notifiedStatus' = Notified(s.statusChanged)
        /\ suggestionsVisible' = r.popup.suggestionsVisible
        /\ suggestions_popup' = r.popup.suggestions_popup
        /\ currentRow' = r.popup.currentRow
        /\ searchReplies' = [j \in 1..(Len(searchReplies) - 1) |->
                                IF j < i THEN searchReplies[j] ELSE searchReplies[j + 1]]
                             \o [k \in 1..finished.posts |-> reply]
        /\ step' = [Quiet("searchFinished") EXCEPT
                        !.arg = kind,
                        !.query = reply.query,
                        !.suggestions = reply.suggestions,
                        !.response = response,
                        !.posts = finished.posts,
                        !.onSuccess = finished.onSuccess,
                        !.onError = finished.onError,
                        !.statusChanged = s.statusChanged,
                        !.delivered = deliveries,
                        !.displayed = IF r.displayed THEN deliveries ELSE <<>>]
        /\ UNCHANGED <<commandText, textChangedConnections, reconnectTimers, managerVars>>

SearchReplied ==
    \E i \in 1..Len(searchReplies), kind \in ReplyKinds :
        \E response \in (IF kind = "object" THEN SearchResponses ELSE {{}}) :
            SearchFinished(i, kind, response)

\* MainWindow::selectSuggestion, called by the handler op with an index
SelectSuggestion(op, index) ==
    LET inRange == ~ (index < 0 \/ index >= Len(suggestions_popup))
    IN  /\ inRange => reconnectTimers < MaxReconnects
        /\ IF inRange
           THEN /\ suggestionsVisible' = hideSuggestions(popup).suggestionsVisible
                /\ textChangedConnections' = 0
                /\ commandText' = suggestions_popup[index + 1]
                /\ reconnectTimers' = reconnectTimers + 1
                /\ UNCHANGED <<suggestions_popup, currentRow>>
           ELSE UNCHANGED <<commandText, popupVars, textChangedConnections,
                            reconnectTimers>>
        /\ step' = [Quiet(op) EXCEPT !.row = index]
        /\ UNCHANGED <<searchReplies, serverVars, managerVars>>

\* the 50 ms timer of selectSuggestion: textChanged is connected again
ReconnectTimeout ==
    /\ reconnectTimers > 0
    /\ reconnectTimers' = reconnectTimers - 1
    /\ textChangedConnections' = textChangedConnections + 1
    /\ step' = Quiet("reconnect")
    /\ UNCHANGED <<commandText, popupVars, searchReplies, serverVars, managerVars>>

\* MainWindow::eventFilter, Qt::Key_Down while the popup is visible
KeyDown ==
    /\ suggestionsVisible
    /\ currentRow' = keyDown(currentRow, Len(suggestions_popup))
    /\ step' = [Quiet("keyDown") EXCEPT !.row = currentRow]
    /\ UNCHANGED <<commandText, suggestionsVisible, suggestions_popup, searchReplies,
                   textChangedConnections, reconnectTimers, serverVars, managerVars>>

\* MainWindow::eventFilter, Qt::Key_Up while the popup is visible
KeyUp ==
    /\ suggestionsVisible
    /\ currentRow' = keyUp(currentRow)
    /\ step' = [Quiet("keyUp") EXCEPT !.row = currentRow]
    /\ UNCHANGED <<commandText, suggestionsVisible, suggestions_popup, searchReplies,
                   textChangedConnections, reconnectTimers, serverVars, managerVars>>

\* MainWindow::eventFilter, Qt::Key_Return and Qt::Key_Enter while the popup is visible
\* and its current index is valid
KeyReturn ==
    /\ suggestionsVisible
    /\ currentRow >= 0
    /\ SelectSuggestion("keyReturn", currentRow)

\* MainWindow::eventFilter, Qt::Key_Escape while the popup is visible
KeyEscape ==
    /\ suggestionsVisible
    /\ suggestionsVisible' = hideSuggestions(popup).suggestionsVisible
    /\ step' = Quiet("keyEscape")
    /\ UNCHANGED <<commandText, suggestions_popup, currentRow, searchReplies,
                   textChangedConnections, reconnectTimers, serverVars, managerVars>>

\* MainWindow::eventFilter, Qt::Key_Tab while the popup is visible
KeyTab ==
    /\ suggestionsVisible
    /\ Len(suggestions_popup) > 0
    /\ SelectSuggestion("keyTab", 0)

\* MainWindow::eventFilter, a mouse press on a row of the popup
SuggestionClicked(row) ==
    /\ suggestionsVisible
    /\ row < Len(suggestions_popup)
    /\ SelectSuggestion("suggestionClicked", row)

\* QApplication::focusChanged to a widget other than the command box
FocusChanged ==
    /\ suggestionsVisible
    /\ suggestionsVisible' = hideSuggestions(popup).suggestionsVisible
    /\ step' = Quiet("focusChanged")
    /\ UNCHANGED <<commandText, suggestions_popup, currentRow, searchReplies,
                   textChangedConnections, reconnectTimers, serverVars, managerVars>>

Next ==
    \/ StartHealthMonitoring
    \/ StopHealthMonitoring
    \/ HealthCheckTimeout
    \/ \E noError \in BOOLEAN : HealthCheckFinished(noError)
    \/ \E own \in BOOLEAN : BackupTimeout(own)
    \/ \E command \in ExecCommands, inputText \in InputTexts, hasCallback \in Callbacks :
           ExecuteCommand(command, inputText, hasCallback)
    \/ CommandReplied

Spec == Init /\ [][Next]_vars

\* every POST finishes: the request carries a transfer timeout (REQUEST_TIMEOUT)
FairSpec == Spec /\ WF_vars(CommandReplied)

\* the timer fires every HEALTH_CHECK_INTERVAL while it is active, and every GET
\* finishes: the request carries a transfer timeout
MonitorFairSpec ==
    /\ Spec
    /\ WF_vars(HealthCheckTimeout)
    /\ WF_vars(\E noError \in BOOLEAN : HealthCheckFinished(noError))

\* the parser and the suggestion engine alone: isCommandValid called on the command
\* texts of ParseCommands, getContextualSuggestions on the inputs of SuggestInputs
ParseNext ==
    \/ \E command \in ParseCommands : IsCommandValid(command)
    \/ \E input \in SuggestInputs : GetContextualSuggestions(input)

ParseSpec == Init /\ [][ParseNext]_vars

\* the command box and its suggestions: the monitor is started and its probes succeed,
\* the user edits the command text and works the popup, /api/search replies arrive
UiNext ==
    \/ StartHealthMonitoring
    \/ HealthCheckFinished(TRUE)
    \/ \E text \in CommandTexts : CommandTextEdited(text)
    \/ SearchReplied
    \/ KeyDown
    \/ KeyUp
    \/ KeyReturn
    \/ KeyEscape
    \/ KeyTab
    \/ \E row \in 0..3 : SuggestionClicked(row)
    \/ FocusChanged
    \/ ReconnectTimeout

UiSpec == Init /\ [][UiNext]_vars

----------------------------------------------------------------------------
(* Properties of the dispatcher *)

Count(seq, x) == Cardinality({i \in 1..Len(seq) : seq[i] = x})

AlreadyRunning == Outcome("ExecutionError", "already-running", <<>>)

\* C1: single flight.  In every reachable state at most one command request is
\* outstanding, and executionState is Executing exactly when an accepted execution has
\* not delivered its result yet (its request is outstanding).
C1_SingleFlight ==
    /\ Len(commandReplies) <= 1
    /\ executionState = "Executing" <=> Len(commandReplies) = 1

\* a second executeCommand was made, and rejected, while a request was outstanding
C1_Witness ==
    /\ step.op = "executeCommand"
    /\ step.commandExecuted # <<>>
    /\ step.commandExecuted[1].outcome = AlreadyRunning
    /\ Len(commandReplies) = 1

\* C2: an executeCommand made while executionState is Executing is rejected at once
\* with the already-running ExecutionError: one callback and one commandExecuted carry
\* it, no request is issued, no executionStateChanged is emitted, executionState stays
\* Executing, and the outstanding requests are left as they are (nothing is cancelled
\* and nothing is queued for later).
C2_RejectedWhileExecuting ==
    [][ (executionState = "Executing" /\ step'.op = "executeCommand") =>
          /\ step'.commandExecuted = <<[command |-> step'.command, outcome |-> AlreadyRunning]>>
          /\ step'.callbacks = IF step'.hasCallback THEN <<AlreadyRunning>> ELSE <<>>
          /\ step'.posts = 0
          /\ step'.executionStateChanged = <<>>
          /\ executionState' = "Executing"
          /\ commandReplies' = commandReplies ]_vars

\* a server command was rejected while the request of another one was outstanding
C2_Witness ==
    /\ step.op = "executeCommand"
    /\ step.command = c_toneLoud
    /\ step.callbacks = <<AlreadyRunning>>
    /\ executionState = "Executing"
    /\ Len(commandReplies) = 1
    /\ commandReplies[1].command # c_toneLoud

\* what a handler's executionStateChanged emissions add to the number of executions
\* that are open (set to Executing and not yet reset to Idle)
Opened(signals) == Count(signals, "Executing") - Count(signals, "Idle")

\* C3, each step: executeCommand sets Executing at most once and resets it in the same
\* call unless it issued a request; the reply of that request resets it, once; no
\* other handler touches it.
C3_ResetOncePerExecution ==
    /\ Count(step.executionStateChanged, "Idle") <= 1
    /\ Count(step.executionStateChanged, "Executing") <= 1
    /\ step.op = "executeCommand" => Opened(step.executionStateChanged) = step.posts
    /\ step.op = "commandFinished" => step.executionStateChanged = <<"Idle">>
    /\ step.op \notin {"executeCommand", "commandFinished"} => step.executionStateChanged = <<>>
    /\ step.executionStateChanged # <<>> =>
           executionState = step.executionStateChanged[Len(step.executionStateChanged)]

\* C3, once Idle: an executeCommand made in state Idle is accepted (it sets Executing)
C3_AcceptedWhenIdle ==
    (executionState = "Idle" /\ step'.op = "executeCommand") =>
        /\ step'.executionStateChanged # <<>>
        /\ step'.executionStateChanged[1] = "Executing"
        /\ step'.commandExecuted # <<[command |-> step'.command, outcome |-> AlreadyRunning]>>

\* C3: every execution that sets executionState to Executing resets it to Idle exactly
\* once on every exit; given that every issued request finishes, Executing leads to
\* Idle, and in Idle a new executeCommand is accepted.
C3_ExecutingLeadsToIdle ==
    /\ []C3_ResetOncePerExecution
    /\ [][C3_AcceptedWhenIdle]_vars
    /\ (executionState = "Executing") ~> (executionState = "Idle")

\* the reply of a request has reset the state
C3_Witness ==
    /\ step.op = "commandFinished"
    /\ step.executionStateChanged = <<"Idle">>
    /\ executionState = "Idle"

\* C4, each step: a call of executeCommand that issues no request reports exactly one
\* outcome, to the callback and by commandExecuted; one that issues a request reports
\* nothing itself, and the reply of the request reports exactly one outcome.
C4_OneNotificationPerStep ==
    /\ (step.op = "executeCommand" /\ step.posts = 0) =>
           /\ Len(step.commandExecuted) = 1
           /\ step.callbacks = IF step.hasCallback
                               THEN <<step.commandExecuted[1].outcome>> ELSE <<>>
    /\ (step.op = "executeCommand" /\ step.posts = 1) =>
           /\ step.commandExecuted = <<>>
           /\ step.callbacks = <<>>
           /\ commandReplies # <<>>
           /\ commandReplies[Len(commandReplies)].command = step.command
    /\ step.op = "commandFinished" =>
           /\ Len(step.commandExecuted) = 1
           /\ step.commandExecuted[1].command = step.command
           /\ step.callbacks = IF step.hasCallback
                               THEN <<step.commandExecuted[1].outcome>> ELSE <<>>

\* C4: every call of executeCommand produces exactly one completion notification (one
\* callback invocation and one commandExecuted emission), on every branch; the
\* notification of a remote execution comes with the reply of its request, which
\* arrives.
C4_ExactlyOneNotification ==
    /\ []C4_OneNotificationPerStep
    /\ (commandReplies # <<>>) ~> (step.op = "commandFinished")

\* a remote execution was notified as failed by a network error
C4_Witness ==
    /\ step.op = "commandFinished"
    /\ step.arg = "networkError"
    /\ Len(step.commandExecuted) = 1
    /\ Len(step.callbacks) = 1

\* C5: a server command (one that parses and requires the server) dispatched in state
\* Idle while the connection is not Connected fails with ServerError "not available",
\* issues no request and leaves executionState Idle.
C5_RemoteUnavailable ==
    [][ ( /\ step'.op = "executeCommand"
          /\ executionState = "Idle"
          /\ currentStatus # "Connected"
          /\ parsed[step'.command].ok
          /\ requiresServerOf(parsed[step'.command].baseCommand) ) =>
          /\ step'.commandExecuted =
                 <<[command |-> step'.command,
                    outcome |-> Outcome("ServerError", "not-available",
                                        parsed[step'.command].baseCommand)]>>
          /\ step'.posts = 0
          /\ commandReplies' = <<>>
          /\ executionState' = "Idle" ]_vars

\* a server command was refused in state Error, after the server had been Connected
C5_Witness ==
    /\ step.op = "executeCommand"
    /\ step.commandExecuted # <<>>
    /\ step.commandExecuted[1].outcome.kind = "not-available"
    /\ currentStatus = "Error"
    /\ requestFailures > 0

----------------------------------------------------------------------------
(* Properties of the connectivity monitor *)

\* a failed probe has just been handled by handleHealthCheckResponse
ProbeFailed == step.op = "handleHealthCheckResponse" /\ step.arg = "Error"

\* C6: from Connecting, the state stays Connecting after each of the first
\* MAX_RETRY_ATTEMPTS - 1 consecutive failed probes and becomes Error on exactly the
\* MAX_RETRY_ATTEMPTS-th, for every entry into Connecting, a restart of monitoring
\* after Error included.  failRun counts the failed probes since the last successful
\* probe or the last entry into Connecting by startHealthMonitoring; runs into which a failed request was counted
\* (requestFailures > 0) are left to C7.
C6_ErrorOnExactlyMaxRetries ==
    [][ (currentStatus = "Connecting" /\ ProbeFailed' /\ requestFailures = 0) =>
          /\ failRun' < MAX_RETRY_ATTEMPTS => currentStatus' = "Connecting"
          /\ failRun' = MAX_RETRY_ATTEMPTS => currentStatus' = "Error"
          /\ failRun' <= MAX_RETRY_ATTEMPTS ]_vars

C8_ErrorIsTerminal ==
    [][ currentStatus = "Error" =>
          (currentStatus' = "Error" \/ step'.op = "startHealthMonitoring") ]_vars

\* C9: the retry taken in state Error (startHealthMonitoring) resets the
\* consecutive-failure counter to 0 and moves the state to Connecting.
C9_RetryResetsCounter ==
    [][ (currentStatus = "Error" /\ step'.op = "startHealthMonitoring") =>
          (currentStatus' = "Connecting" /\ consecutiveFailures' = 0) ]_vars

\* C10: startHealthMonitoring called while monitoring is running is a no-op: the
\* state, the failure counter and an outstanding probe are left as they are and no
\* statusChanged is emitted.
C10_StartIsIdempotent ==
    [][ (healthCheckTimer /\ step'.op = "startHealthMonitoring") =>
          /\ currentStatus' = currentStatus
          /\ consecutiveFailures' = consecutiveFailures
          /\ currentHealthCheck = "running" =>
                 (currentHealthCheck' = "running" /\ step'.gets = 0)
          /\ step'.statusChanged = <<>> ]_vars

----------------------------------------------------------------------------
(* Properties of the notifications of the monitor *)

\* C11: statusChanged is emitted exactly once for each change of currentStatus, with
\* the new status, and never by a handler that leaves currentStatus as it was; so a
\* notification never carries the status that the notification before it carried.
C11_StatusChangedOncePerChange ==
    [][ /\ step'.statusChanged =
               IF currentStatus' # currentStatus THEN <<currentStatus'>> ELSE <<>>
        /\ step'.statusChanged # <<>> => step'.statusChanged[1] # notifiedStatus ]_vars

\* a failed probe below the ceiling left the status Connecting and nothing was emitted
C11_Witness ==
    /\ step.op = "handleHealthCheckResponse"
    /\ step.arg = "Error"
    /\ step.statusChanged = <<>>
    /\ currentStatus = "Connecting"
    /\ notifiedStatus = "Connecting"

----------------------------------------------------------------------------
(* Properties of the results of commands *)

\* C12: when the response object of a server command holds an error field, the
\* outcome of the execution is the ServerError failure, never Success, and its message
\* contains the text of the error field.
C12_ErrorFieldIsFailure ==
    (step.op = "commandFinished" /\ step.arg = "object"
        /\ jsonContains(step.response, "error")) =>
        /\ Len(step.commandExecuted) = 1
        /\ step.commandExecuted[1].outcome.result = "ServerError"
        /\ containsText(step.commandExecuted[1].outcome.detail,
                        jsonString(step.response, "error"))

\* the first token of a command text, in lower case (empty for a blank text)
FirstToken(command) ==
    LET parts == splitSkipEmpty(command)
    IN  IF parts = <<>> THEN <<>> ELSE toLower(parts[1])

\* the command texts of the model that give summarise more than one argument, a
\* non-integer, or an integer outside 1..99
BadSummarise ==
    { c \in ExecCommands :
        LET parts == splitSkipEmpty(c)
        IN  /\ FirstToken(c) \in {s_summarise, s_summarize}
            /\ \/ Len(parts) > 2
               \/ /\ Len(parts) = 2
                  /\ LET p == toInt(parts[2])
                     IN  ~p.ok \/ p.value <= 0 \/ p.value >= 100 }

\* C13: summarise executed with more than one argument, a non-integer argument or an
\* integer p <= 0 or p >= 100 yields ValidationError (not InvalidCommand), issues no
\* request and leaves executionState Idle.
C13_BadPercentageIsValidationError ==
    [][ (step'.op = "executeCommand" /\ executionState = "Idle"
            /\ step'.command \in BadSummarise) =>
          /\ Len(step'.commandExecuted) = 1
          /\ step'.commandExecuted[1].outcome.result = "ValidationError"
          /\ step'.posts = 0
          /\ executionState' = "Idle" ]_vars

\* a / b of integers is the rational num / den
IsRatio(r, a, b) == r.num * b = a * r.den

TheOutcome(s) == s.commandExecuted[1].outcome

\* C15: for every name that commandRegistry::getAllCommands lists, the name alone
\* parses in the dispatcher, and its execution is routed to the server path
\* (makeRequest) if its descriptor requires the server and to the local handler if not.
C15_RegistryCommandsParseAndRoute ==
    [][ (step'.op = "executeCommand" /\ executionState = "Idle"
            /\ listContains(getAllCommands, step'.command)) =>
          LET p == parsed[step'.command]
          IN  /\ p.ok
              /\ step'.commandExecuted # <<>> =>
                     TheOutcome(step').kind # "unknown-command"
              /\ (listContains(availableCommands, p.baseCommand)
                     /\ trimmedInput[step'.inputText] # <<>>) =>
                     IF requiresServerOf(p.baseCommand)
                     THEN step'.makeRequests = 1
                     ELSE /\ step'.makeRequests = 0
                          /\ step'.commandExecuted # <<>>
                          /\ TheOutcome(step').result = "Success" ]_vars

\* the command texts of the model that give tone an argument outside its set
ToneArgumentOutsideSet ==
    { c \in ExecCommands :
        LET parts == splitSkipEmpty(c)
        IN  /\ FirstToken(c) = s_tone
            /\ Len(parts) > 1
            /\ ~listContains(toneArguments, toLower(parts[2])) }

\* the command texts of the model that give tone no argument or one of its set, in
\* any case of letters
ToneArgumentAccepted ==
    { c \in ExecCommands :
        LET parts == splitSkipEmpty(c)
        IN  /\ FirstToken(c) = s_tone
            /\ Len(parts) <= 2
            /\ Len(parts) = 2 => listContains(toneArguments, toLower(parts[2])) }

\* C16: the argument of tone is validated, case-insensitively, against formal, casual
\* and playful: executed while the command is available and with a text body, a value
\* outside the set fails with ValidationError and no request, while a member of the
\* set or no argument is accepted (the request is issued).
C16_ToneArgumentValidated ==
    [][ (step'.op = "executeCommand" /\ executionState = "Idle"
            /\ listContains(availableCommands, s_tone)
            /\ trimmedInput[step'.inputText] # <<>>) =>
          /\ step'.command \in ToneArgumentOutsideSet =>
                 /\ step'.commandExecuted # <<>>
                 /\ TheOutcome(step').result = "ValidationError"
                 /\ step'.posts = 0
          /\ step'.command \in ToneArgumentAccepted => step'.posts = 1 ]_vars

\* parseCommandWithArgs on the lower-case form of each command text of the model
parsedLower == [c \in ExecCommands |-> parseCommandWithArgs(toLower(c))]

\* any upper/lower-case variant of a command text resolves as its lower-case form
CaseInsensitive(command) ==
    /\ parsed[command].ok = parsedLower[command].ok
    /\ parsed[command].baseCommand = parsedLower[command].baseCommand

\* a call from state Idle that ends as an unknown command
RejectedAsUnknown ==
    /\ step'.commandExecuted # <<>>
    /\ TheOutcome(step').result = "InvalidCommand"
    /\ step'.posts = 0
    /\ executionState' = "Idle"

\* C17 as claimed: a command text whose first token, in lower case, is not a key of
\* the command table yields InvalidCommand, issues no request and leaves
\* executionState Idle; a case variant of a name resolves as its lower-case form.
C17_UnregisteredIsUnknown ==
    [][ (step'.op = "executeCommand" /\ executionState = "Idle") =>
          /\ ~listContains(commandKeys, FirstToken(step'.command)) => RejectedAsUnknown
          /\ CaseInsensitive(step'.command) ]_vars

\* C17 as amended: the same for a first token that is neither a key of the command
\* table nor summarize, the other spelling of summarise, which resolves to summarise.
C17_UnregisteredExceptSpellingIsUnknown ==
    [][ (step'.op = "executeCommand" /\ executionState = "Idle") =>
          /\ (~listContains(commandKeys, FirstToken(step'.command))
                 /\ FirstToken(step'.command) # s_summarize) => RejectedAsUnknown
          /\ FirstToken(step'.command) = s_summarize =>
                 \/ parsed[step'.command].baseCommand = s_summarise /\ ~RejectedAsUnknown
                 \/ step'.command \in BadSummarise
          /\ CaseInsensitive(step'.command) ]_vars

\* an unknown name was rejected
C17_Witness ==
    /\ step.op = "executeCommand"
    /\ step.command = <<"b","o","g","u","s">>
    /\ step.commandExecuted # <<>>
    /\ TheOutcome(step).kind = "unknown-command"
    /\ executionState = "Idle"

\* a text body that is empty or holds only spaces
Blank(text) == \A i \in 1..Len(text) : text[i] = " "

\* C18: a command that parses, is available and requires input, executed with an
\* empty or whitespace-only text body, fails with ValidationError, issues no request
\* and leaves executionState Idle.
C18_BlankInputRejected ==
    [][ (step'.op = "executeCommand" /\ executionState = "Idle"
            /\ parsed[step'.command].ok
            /\ listContains(availableCommands, parsed[step'.command].baseCommand)
            /\ requiresInputOf(parsed[step'.command].baseCommand)
            /\ Blank(step'.inputText)) =>
          /\ step'.commandExecuted # <<>>
          /\ TheOutcome(step').result = "ValidationError"
          /\ step'.posts = 0
          /\ step'.makeRequests = 0
          /\ executionState' = "Idle" ]_vars

\* an available server command was refused for its blank text body
C18_Witness ==
    /\ step.op = "executeCommand"
    /\ step.commandExecuted # <<>>
    /\ TheOutcome(step).kind = "requires-input"
    /\ Blank(step.inputText)
    /\ currentStatus = "Connected"

----------------------------------------------------------------------------
(* Properties of makeRequest *)

\* C19, each step: a call of makeRequest either invokes onError at once or issues the
\* request and invokes nothing; the reply of a request invokes exactly one of onSuccess
\* and onError; no other handler invokes either.
C19_OneCallbackPerStep ==
    /\ step.op = "executeCommand" =>
           /\ step.makeRequests \in {0, 1}
           /\ step.onSuccess = 0
           /\ step.onError = step.makeRequests - step.posts
           /\ step.onError \in {0, 1}
    /\ step.op = "commandFinished" =>
           /\ step.onSuccess + step.onError = 1
           /\ step.onSuccess = 1 <=> step.arg = "object"
    /\ step.op \notin {"executeCommand", "commandFinished"} =>
           step.makeRequests + step.onSuccess + step.onError = 0

\* C19, between steps: the requests outstanding are those issued and not yet replied to
C19_RepliedOnce ==
    Len(commandReplies') = Len(commandReplies) + step'.posts
                           - (IF step'.op = "commandFinished" THEN 1 ELSE 0)

C20_MalformedBodyIsError ==
    (step.op = "commandFinished" /\ step.arg = "invalidJson") =>
        /\ step.onError = 1
        /\ step.onSuccess = 0
        /\ Len(step.commandExecuted) = 1
        /\ TheOutcome(step).result = "ServerError"
        /\ step.callbacks = IF step.hasCallback THEN <<TheOutcome(step)>> ELSE <<>>

\* a malformed body ended an execution with ServerError
C20_Witness ==
    /\ step.op = "commandFinished"
    /\ step.arg = "invalidJson"
    /\ step.commandExecuted # <<>>
    /\ TheOutcome(step).kind = "request-invalid-json"
    /\ executionState = "Idle"

----------------------------------------------------------------------------
(* Properties of the outcome kinds *)

\* the result that the reply of a request reports for a kind of reply
ResultOfReply(kind) == replyOutcome(s_tone, makeRequestFinished(kind), {})[1].result

\* the result that executeCommand reports for a server command while the status is
\* not Connected
ResultWhenUnavailable ==
    executeCommand("Idle", computeAvailable(FALSE), "Disconnected",
                   c_toneLoud, <<"a">>, TRUE).commandExecuted[1].outcome.result

\* C21: the outcome kind delivered for a transport failure or timeout differs from
\* the kind delivered for a response that was received but is bad, and from the kind
\* delivered while the backend is not Connected.
C21_FailureKindsDistinct ==
    (step.op = "commandFinished" /\ step.arg = "networkError") =>
        /\ Len(step.commandExecuted) = 1
        /\ TheOutcome(step).result # ResultOfReply("invalidJson")
        /\ TheOutcome(step).result # ResultWhenUnavailable

----------------------------------------------------------------------------
(* Properties of the suggestion engine *)

\* the elements of a list
Items(list) == {list[k] : k \in 1..Len(list)}

\* name starts with token, letters compared without case
HasPrefix(name, token) ==
    /\ Len(token) <= Len(name)
    /\ \A k \in 1..Len(token) : toLowerChar(name[k]) = toLowerChar(token[k])

\* the list keeps the order of the list it was drawn from
InOrderOf(list, from) ==
    \A a, b \in 1..Len(list) :
        a < b => \E x, y \in 1..Len(from) : x < y /\ from[x] = list[a] /\ from[y] = list[b]

\* C22: for an empty or whitespace-only input the engine returns only the starter
\* list summarise, tone, highlight: names of the registry, and fewer than the
\* registry holds.
C22_EmptyInputGivesStarters ==
    (step.op = "getContextualSuggestions" /\ Blank(step.query)) =>
        /\ step.suggestions = <<s_summarise, s_tone, s_highlight>>
        /\ Items(step.suggestions) \subseteq Items(getAllCommands)
        /\ Items(step.suggestions) # Items(getAllCommands)

\* a whitespace-only input got the starter list
C22_Witness ==
    /\ step.op = "getContextualSuggestions"
    /\ step.query = <<" ", " ">>
    /\ Len(step.suggestions) = 3

\* an input that is one token without a space
SingleToken(input) == input # <<>> /\ \A k \in 1..Len(input) : input[k] # " "

\* C23: for a single token the engine returns the registry names that start with the
\* token, letters compared without case, in registry order and at most 3 of them: no
\* item fails the prefix test, and a matching name is left out only when 3 matching
\* names stand before it in the registry.
C23_PrefixMatchesInRegistryOrder ==
    (step.op = "getContextualSuggestions" /\ SingleToken(step.query)) =>
        /\ \A k \in 1..Len(step.suggestions) :
               /\ listContains(getAllCommands, step.suggestions[k])
               /\ HasPrefix(step.suggestions[k], step.query)
        /\ InOrderOf(step.suggestions, getAllCommands)
        /\ Len(step.suggestions) <= 3
        /\ \A x \in 1..Len(getAllCommands) :
               (HasPrefix(getAllCommands[x], step.query)
                   /\ ~listContains(step.suggestions, getAllCommands[x])) =>
                   Cardinality({y \in 1..(x - 1) :
                                   HasPrefix(getAllCommands[y], step.query)}) >= 3

\* a token in capitals got the two names that start with it, in registry order
C23_Witness ==
    /\ step.op = "getContextualSuggestions"
    /\ step.query = <<"R", "E">>
    /\ step.suggestions = <<s_rephrase, s_rewrite>>

\* the enumerated arguments of a command in commandRegistry::getCommandDefinitions
EnumeratedArguments(commandName) ==
    IF commandName = s_tone THEN toneArguments
    ELSE IF commandName = s_highlight THEN highlightArguments
    ELSE <<>>

\* "<command> <value>" for the values of the command that start with partial
Completions(commandName, partial) ==
    LET values == SelectSeq(EnumeratedArguments(commandName),
                            LAMBDA v : HasPrefix(v, partial))
    IN  [k \in 1..Len(values) |-> commandName \o <<" ">> \o values[k]]

\* C24: for a command with enumerated arguments followed by one trailing space and no
\* second token the engine takes the argument as empty and returns "<command> <value>"
\* for every enumerated value, not the completions of the command name.
C24_TrailingSpaceGivesArguments ==
    (step.op = "getContextualSuggestions"
        /\ \E c \in {s_tone, s_highlight} : step.query = c \o <<" ">>) =>
        step.suggestions =
            Completions(SubSeq(step.query, 1, Len(step.query) - 1), <<>>)

\* an input "<command> <partial>": two tokens, one space, an enumerated command
CommandAndPartial(input) ==
    LET parts == splitKeep(input, <<>>)
    IN  /\ Len(parts) = 2
        /\ parts[1] # <<>> /\ parts[2] # <<>>
        /\ EnumeratedArguments(toLower(parts[1])) # <<>>

\* C25: for "<command> <partial>" with an enumerated command and a non-empty partial
\* the engine returns exactly "<command> <value>" for the enumerated values that start
\* with partial, letters compared without case, in enumeration order; "tone fo" gives
\* "tone formal" alone.
C25_PartialArgumentCompletions ==
    /\ (step.op = "getContextualSuggestions" /\ CommandAndPartial(step.query)) =>
           LET parts == splitKeep(step.query, <<>>)
           IN  step.suggestions = Completions(toLower(parts[1]), parts[2])
    /\ (step.op = "getContextualSuggestions" /\ step.query = s_tone \o <<" ","f","o">>) =>
           step.suggestions = << s_tone \o <<" ">> \o s_formal >>

\* tone fo got tone formal
C25_Witness ==
    /\ step.op = "getContextualSuggestions"
    /\ step.query = s_tone \o <<" ","f","o">>
    /\ Len(step.suggestions) = 1
    /\ step.suggestions[1] = s_tone \o <<" ">> \o s_formal

(***************************************************************************)
(* C28  Health probes are serialized: in every reachable state at most one *)
(* probe is in flight, the probe in flight is the one currentHealthCheck   *)
(* points to, and a timer tick or a start that finds a probe pending       *)
(* issues no GET and leaves that one probe in flight.                      *)
(***************************************************************************)
IssuesProbe == step.op \in {"performHealthCheck", "startHealthMonitoring"}

C28_ProbesSerialized ==
    /\ healthChecks \in {0, 1}
    /\ healthChecks = 1 <=> currentHealthCheck = "running"
    /\ IssuesProbe => healthChecks = 1
    /\ IssuesProbe => step.gets \in {0, 1}

\* a timer tick found a probe pending and issued none
C28_Witness ==
    /\ step.op = "performHealthCheck"
    /\ step.gets = 0
    /\ healthChecks = 1

C30_StoppedMeansNoProbe ==
    /\ step.op = "stopHealthMonitoring" => ~ healthCheckTimer
    /\ ~ healthCheckTimer => healthChecks = 0 /\ currentHealthCheck = "null"
    /\ step.op = "performHealthCheck" => healthCheckTimer

\* a stop aborted the probe in flight
C30_Witness ==
    /\ step.op = "stopHealthMonitoring"
    /\ step.aborts = 1
    /\ healthChecks = 0
    /\ ~ healthCheckTimer

(***************************************************************************)
(* C26  A suggestion list is displayed only if its originating query       *)
(* equals the text of the command box at the moment of delivery.           *)
(***************************************************************************)
Deliveries(list) == {list[k] : k \in 1..Len(list)}

C26_DisplayedOnlyForCurrentText ==
    \A d \in Deliveries(step.displayed) : d.query = d.text

(***************************************************************************)
(* C26, amended  A suggestion list is displayed only if its originating    *)
(* query equals the text of the command box, surrounding white space       *)
(* removed, at the moment of delivery; a delivery for a query that differs *)
(* from it is discarded, whether it is the local one or a reply of the     *)
(* search, and in whichever order the replies arrive.                      *)
(***************************************************************************)
Stale(d) == d.query # trimmed(d.text)

C26_DisplayedOnlyForTrimmedText ==
    /\ \A d \in Deliveries(step.displayed) : ~ Stale(d) /\ d.suggestions # <<>>
    /\ \A d \in Deliveries(step.delivered) : Stale(d) => step.displayed = <<>>
    /\ step.displayed # <<>> => step.displayed = step.delivered

\* the reply of a search arrived after the text had changed and was discarded
C26_Witness ==
    /\ step.op = "searchFinished"
    /\ \E d \in Deliveries(step.delivered) : Stale(d) /\ d.suggestions # <<>>
    /\ step.displayed = <<>>

(***************************************************************************)
(* C27  The selection never wraps: Key_Down on the last row and Key_Up on  *)
(* the first row leave the current row as it is; while the popup is        *)
(* visible the current row lies in 0..rowCount-1, and it is 0 each time a  *)
(* list is displayed.                                                      *)
(***************************************************************************)
rowCount == Len(suggestions_popup)

C27_SelectionNeverWraps ==
    /\ suggestionsVisible => currentRow \in 0..(rowCount - 1)
    /\ step.displayed # <<>> => suggestionsVisible /\ currentRow = 0
    /\ step.op = "keyDown" =>
           currentRow = IF step.row = rowCount - 1 THEN step.row ELSE step.row + 1
    /\ step.op = "keyUp" =>
           currentRow = IF step.row = 0 THEN step.row ELSE step.row - 1

\* Key_Down on the last row of a list of several rows
C27_Witness ==
    /\ step.op = "keyDown"
    /\ rowCount >= 2
    /\ step.row = rowCount - 1
    /\ currentRow = step.row

----------------------------------------------------------------------------
(* Properties of the monitor's transitions *)

(***************************************************************************)
(* C31  After a health probe that finished without error has been handled, *)
(* from whatever status, the status is Connected and consecutiveFailures   *)
(* is 0.                                                                   *)
(***************************************************************************)
ProbeSucceeded == step.op = "handleHealthCheckResponse" /\ step.arg = "NoError"

C31_SuccessGivesConnected ==
    ProbeSucceeded => currentStatus = "Connected" /\ consecutiveFailures = 0

\* a successful probe was handled while the status was already Connected: no
\* statusChanged is emitted, and the counter is 0
C31_Witness ==
    /\ ProbeSucceeded
    /\ step.statusChanged = <<>>
    /\ currentStatus = "Connected"
    /\ consecutiveFailures = 0

(***************************************************************************)
(* C32  A failed health probe handled while the status is Connected moves  *)
(* the status to Connecting, never directly to Error.                      *)
(***************************************************************************)
C32_FailedProbeFromConnected ==
    [][ (/\ currentStatus = "Connected"
         /\ step'.op = "handleHealthCheckResponse"
         /\ step'.arg = "Error") =>
          currentStatus' = "Connecting" ]_vars

(***************************************************************************)
(* C37  stopHealthMonitoring leaves the status and consecutiveFailures as  *)
(* they are and emits no statusChanged: the abort of the probe in flight   *)
(* is not counted as a failed probe.                                       *)
(***************************************************************************)
C37_StopLeavesStatusAndCounter ==
    [][ step'.op = "stopHealthMonitoring" =>
          /\ currentStatus' = currentStatus
          /\ consecutiveFailures' = consecutiveFailures
          /\ step'.statusChanged = <<>> ]_vars

----------------------------------------------------------------------------
(* Properties of the dispatcher's requests *)

(***************************************************************************)
(* C33  A failed command is not retried: an executeCommand issues at most  *)
(* one POST, and it issues one only when it leaves the command executing;  *)
(* the handler of the reply issues none, whatever the reply, so after a    *)
(* failure no request of that command is in flight; nothing but            *)
(* executeCommand issues a command POST.                                   *)
(***************************************************************************)
C33_NoAutomaticRetry ==
    /\ step.op = "executeCommand" =>
           /\ step.posts \in {0, 1}
           /\ step.posts = 1 => executionState = "Executing" /\ step.callbacks = <<>>
    /\ step.op = "commandFinished" => step.posts = 0 /\ commandReplies = <<>>
    /\ step.op \notin {"executeCommand", "commandFinished"} => step.posts = 0
    /\ executionState = "Idle" => commandReplies = <<>>

\* the POST of a command ended with a network error: the failure is reported and no
\* request is in flight
C33_Witness ==
    /\ step.op = "commandFinished"
    /\ step.arg = "networkError"
    /\ \E k \in 1..Len(step.commandExecuted) :
           step.commandExecuted[k].outcome.result = "ServerError"
    /\ step.posts = 0
    /\ commandReplies = <<>>
    /\ executionState = "Idle"

(***************************************************************************)
(* C34  Each getSuggestions call delivers the local list before it         *)
(* returns; it posts /api/search only if the server is ready and the query *)
(* is a single token; the reply is delivered for the same query only if    *)
(* its list is not empty and differs from the local list, and the handler  *)
(* of the reply issues no request: a call leads to at most two deliveries. *)
(***************************************************************************)
LocalDelivery ==
    [query |-> step.query, text |-> commandText,
     suggestions |-> getContextualSuggestions(step.query)]

RemoteDelivery ==
    [query |-> step.query, text |-> commandText,
     suggestions |-> jsonArray(step.response, "results")]

C34_LocalThenRemoteDelivery ==
    /\ (step.op = "commandTextEdited" /\ step.query # <<>>) =>
           /\ step.delivered = [k \in 1..textChangedConnections |-> LocalDelivery]
           /\ step.makeRequests \in {0, textChangedConnections}
           /\ step.makeRequests > 0 <=>
                  /\ textChangedConnections > 0
                  /\ currentStatus = "Connected"
                  /\ Len(splitSkipEmpty(step.query)) = 1
    /\ step.op = "searchFinished" =>
           /\ step.posts = 0
           /\ step.delivered =
                  IF /\ step.arg = "object"
                     /\ RemoteDelivery.suggestions # <<>>
                     /\ RemoteDelivery.suggestions # getContextualSuggestions(step.query)
                  THEN <<RemoteDelivery>>
                  ELSE <<>>

\* the reply of a search brought a list that differs from the local one: the second
\* delivery for the query
C34_Witness ==
    /\ step.op = "searchFinished"
    /\ step.delivered = <<RemoteDelivery>>
    /\ RemoteDelivery.suggestions # getContextualSuggestions(step.query)

----------------------------------------------------------------------------
(* Properties of the command box *)

(***************************************************************************)
(* C40  textChanged of the command box is connected to commandTextEdited   *)
(* at most once at any time, and not at all only while a reconnect timer   *)
(* of selectSuggestion is armed; so a text change never leads to two       *)
(* suggestion computations.                                                *)
(***************************************************************************)
C40_ListenerConnectedAtMostOnce ==
    /\ textChangedConnections \in {0, 1}
    /\ textChangedConnections = 0 => reconnectTimers > 0
    /\ step.op = "commandTextEdited" => Len(step.delivered) <= 1

----------------------------------------------------------------------------
(* Properties of the dispatcher's command table *)

(***************************************************************************)
(* C35  Between handlers, availableCommands holds exactly: help and clear  *)
(* in every status, and every command that requires the server exactly     *)
(* when the status is Connected.                                           *)
(***************************************************************************)
LocalCommands == {s_help, s_clear}

ServerCommands == {s_summarise, s_tone, s_keywords, s_rephrase, s_rewrite}

C35_AvailableFollowsStatus ==
    /\ {availableCommands[i] : i \in 1..Len(availableCommands)} =
           LocalCommands \cup (IF currentStatus = "Connected" THEN ServerCommands ELSE {})
    /\ \A i, j \in 1..Len(availableCommands) :
           availableCommands[i] = availableCommands[j] => i = j

\* a command request failed for the fifteenth time in Connected: the status is Error
\* and the commands of the server are no longer available
C35_Witness ==
    /\ step.op = "commandFinished"
    /\ step.statusChanged = <<"Error">>
    /\ currentStatus = "Error"
    /\ ~ listContains(availableCommands, s_tone)
    /\ listContains(availableCommands, s_help)

(***************************************************************************)
(* C36  Every item getContextualSuggestions returns, a command name or a   *)
(* command with a value, is a text parseCommandWithArgs accepts, with a    *)
(* base command of the dispatcher's table.                                 *)
(***************************************************************************)
Accepted(item) ==
    LET p == parseCommandWithArgs(item)
    IN  p.ok /\ listContains(commandKeys, p.baseCommand)

C36_SuggestionsAreAccepted ==
    step.op = "getContextualSuggestions" =>
        \A k \in 1..Len(step.suggestions) : Accepted(step.suggestions[k])

----------------------------------------------------------------------------
(* Recovery of the monitor *)

(***************************************************************************)
(* C38  If from some point on the monitor is left running (no start, no    *)
(* stop), no probe fails or is aborted and no command or search request    *)
(* ends with a network error, then the status becomes Connected, from      *)
(* Connecting and from Error alike, and stays Connected.                   *)
(***************************************************************************)
ProbeFailedOrAborted ==
    \/ ProbeFailed
    \/ step.op \in {"stopHealthMonitoring", "backupTimeout"} /\ step.aborts = 1

RequestFailed ==
    step.op \in {"commandFinished", "searchFinished"} /\ step.arg = "networkError"

MonitorRestarted == step.op \in {"startHealthMonitoring", "stopHealthMonitoring"}

Healthy == healthCheckTimer /\ ~ ProbeFailedOrAborted /\ ~ RequestFailed /\ ~ MonitorRestarted

----------------------------------------------------------------------------
(* The executionStateChanged notifications *)

(***************************************************************************)
(* C39  The executionStateChanged notifications alternate Executing, Idle, *)
(* Executing, Idle, ..., the first being Executing: each one carries the   *)
(* state that the one before did not carry; an executeCommand rejected     *)
(* because a command is executing emits none.                              *)
(***************************************************************************)
Alternates(states) == \A k \in 1..(Len(states) - 1) : states[k] # states[k + 1]

C39_ExecutionStateAlternates ==
    /\ [](step.executionStateChanged # <<>> =>
             step.executionStateChanged[Len(step.executionStateChanged)] = executionState)
    /\ [][ /\ Alternates(<<executionState>> \o step'.executionStateChanged)
           /\ step'.executionStateChanged = <<>> => executionState' = executionState
           /\ (step'.op = "executeCommand" /\ executionState = "Executing") =>
                  step'.executionStateChanged = <<>> ]_vars

\* a command executed at once: Executing and Idle are notified by the one call
C39_Witness ==
    /\ step.op = "executeCommand"
    /\ step.executionStateChanged = <<"Executing", "Idle">>
    /\ step.commandExecuted # <<>>
    /\ step.commandExecuted[1].outcome.result = "Success"
    /\ executionState = "Idle"

====
